---- MODULE Spec2Model ----
(***************************************************************************)
(* getgo: the download-extract-install pipeline of main.go.                *)
(*                                                                         *)
(*   Spec          the install pipeline of main(), run by two concurrent   *)
(*                 invocations of the program on one machine               *)
(*   SpecProgress  progressReader.Read under io.Copy, followed by the      *)
(*                 final render of downloadFileWithProgress                *)
(*   SpecExtract   untargz and unzip on bounded archives                   *)
(*   SpecEnv       setupEnvironmentVariables and setupEnvrcFile on the     *)
(*                 shell configuration file and the .envrc of a user       *)
(***************************************************************************)
EXTENDS Integers, Sequences, FiniteSets, TLC

VARIABLES
    \* ---- install pipeline (main) ----
    goos,          \* runtime.GOOS of the build
    pc,            \* pc[p]: position of invocation p in main()
    versionArg,    \* versionArg[p]: the version argument as given
    installPath,   \* installPath[p]: the install root, made absolute
    version,       \* version[p]: the resolved version (<<>> until resolved)
    exitCode,      \* exitCode[p]: <<>> while running, then <<0>> or <<1>>
    report,        \* report[p]: the message class printed last
    dropped,       \* dropped[p]: the failed calls whose error was ignored
    answered404,   \* answered404[p]: the archive URL answered HEAD or GET with 404
    events,        \* events[p]: lookup / stat / head / get / extract, in order
    shortCircuit,  \* shortCircuit[p]: the already-exists branch was taken
    startedAfter,  \* startedAfter[p]: invocations that had terminated when p started
    promoteSnap,   \* promoteSnap[p]: versioned dir as os.Stat saw it at Promoting
    rootExists,    \* rootExists[r]: the install root r exists
    versionedDir,  \* versionedDir[<<r, v>>]: the tree at r/go<v>
    tempDir,       \* tempDir[p]: the os.MkdirTemp directory of invocation p
    archiveFile,   \* archiveFile[f]: the file at path f of os.TempDir()
    shellConfig,   \* the shell configuration file of getShellConfigFile()
    envrcFile,     \* the .envrc file named by --envrc
    envRuns,       \* envRuns[f]: how each setup of file f so far has ended
    \* ---- progressReader under downloadFileWithProgress ----
    goarch,          \* runtime.GOARCH of the build
    copyState,       \* "copy" while io.Copy reads, "final" before the last render, "done"
    bodyLeft,        \* bytes the response body still holds
    now,             \* the monotonic clock, in milliseconds
    totalBytes,      \* progressReader.totalBytes (headResp.ContentLength)
    readBytes,       \* progressReader.readBytes
    lastPercentage,  \* progressReader.lastPercentage
    lastUpdateTime,  \* progressReader.lastUpdateTime
    emitted,         \* the percentages printed so far, in order
    emittedAt,       \* the report timestamps of the lines the reader printed
    dividedByZero,   \* a percentage was computed with totalBytes = 0 as divisor
    \* ---- untargz / unzip ----
    format,          \* "tar.gz" (untargz) or "zip" (unzip)
    archive,         \* the entries of the archive, in stored order
    umask,           \* the file-creation mask of the process
    dest,            \* dest[path]: what is at dst/path
    idx,             \* index of the entry the loop is at
    result,          \* "running", then "ok" (nil) or "error"
    failedAt         \* index of the first entry one of whose steps failed, 0 if none

procVars == <<pc, exitCode, report>>
installFs == <<rootExists, versionedDir, tempDir, archiveFile>>
envFiles == <<shellConfig, envrcFile>>
pipeVars == <<goos, procVars, dropped, versionArg, installPath, version, answered404, events,
              shortCircuit, startedAfter, promoteSnap, installFs, envFiles,
              envRuns>>

progVars == <<goarch, copyState, bodyLeft, now, totalBytes, readBytes,
              lastPercentage, lastUpdateTime, emitted, emittedAt, dividedByZero>>

extVars == <<format, archive, umask, dest, idx, result, failedAt>>

vars == <<pipeVars, progVars, extVars>>

----------------------------------------------------------------------------
(* Strings are sequences of tokens; a token is one character where the     *)
(* position of a match matters (digits of versions, statuses, addresses).  *)

\* strings.Contains(s, sub)
Contains(s, sub) ==
    \E i \in 1..(Len(s) - Len(sub) + 1) : SubSeq(s, i, i + Len(sub) - 1) = sub

----------------------------------------------------------------------------
(* The install pipeline.                                                   *)

Procs == {1, 2}

\* exitCode[p] before the process has ended
NotExited == <<>>

\* Number of regular files under go/ in the release archive.
ArchiveLen == 2
GoFiles == 1..ArchiveLen

Version123 == <<"1", ".", "2", "3">>
Version1404 == <<"1", ".", "4", "0", "4">>
Versions == {Version123, Version1404}
VersionArgs == {<<"latest">>, <<"-">>} \cup Versions
NoVersion == <<>>

NoTree == [present |-> FALSE, files |-> {}]
\* what one complete extraction of the release archive leaves under go/
CompleteTree == [present |-> TRUE, files |-> GoFiles]
\* tempDir[p]: the temp directory and, inside it, the extracted go/ directory
NoTemp == [present |-> FALSE, name |-> "", go |-> NoTree]

\* the names os.MkdirTemp("", "getgo-extract") can give: the pattern and a
\* random suffix
TempNames == {"getgo-extract1", "getgo-extract2"}
TempNameOrder == {<<"getgo-extract1", "getgo-extract1">>,
                  <<"getgo-extract1", "getgo-extract2">>,
                  <<"getgo-extract2", "getgo-extract2">>}

\* the working directory, which "." expands to, and another install root
Cwd == <<"/opt">>
InstallPaths == {Cwd, <<"/srv">>}

\* main.go:191  filepath.Join(installPath, fmt.Sprintf("go%s", version))
versionedGoDir(p) == <<installPath[p], version[p]>>

archiveExt == IF goos = "windows" THEN <<"zip">> ELSE <<"tar", ".", "gz">>

\* the archive name without the version in it
archiveNameUnversioned(v) == <<"go", ".", goos, "-", "amd64", ".">> \o archiveExt

\* fmt.Sprintf("go%s.%s-%s.%s", version, osName, arch, archiveExt)
archiveName(v) == <<"go">> \o v \o <<".", goos, "-", "amd64", ".">> \o archiveExt

downloadURL(v) == <<"https://go.dev/dl/">> \o archiveName(v)

archivePath(v) == <<"/tmp/">> \o archiveName(v)

\* the archive paths of the versions there are
ArchivePaths == {archivePath(v) : v \in Versions}

\* ---- HTTP outcomes of http.Head / http.Get ----
Status200 == <<"2", "0", "0", " OK">>
Status404 == <<"4", "0", "4", " Not Found">>
Status500 == <<"5", "0", "0", " Internal Server Error">>
Statuses == {Status200, Status404, Status500}

\* remote addresses a transport error can name (go.dev over IPv4 / IPv6)
Addr4 == <<"2", "1", "6", ".", "2", "3", "9", ".", "3", "2", ".", "2", "1">>
Addr6 == <<"[", "2", "4", "0", "4", ":", "6", "8", "0", "0", "::", "8", "d", "]">>
Addrs == {Addr4, Addr6}

\* fmt.Errorf("bad status: %s (URL: %s)", resp.Status, url)
BadStatusError(status, url) ==
    <<"bad status: ">> \o status \o <<" (URL: ">> \o url \o <<")">>

\* the *url.Error of net/http: Head "url": dial tcp addr:443: connect: ...
TransportError(method, url, addr) ==
    <<method, " \"">> \o url \o <<"\": dial tcp ">> \o addr \o <<":443: connect: network is unreachable">>

\* the *fs.PathError of os.Create
CreateError(path) == <<"open ">> \o path \o <<": permission denied">>

\* the errors io.Copy returns: a read error of the body or a write error of the file
CopyErrors(path) ==
    { <<"unexpected EOF">>, <<"write ">> \o path \o <<": no space left on device">> }

\* main.go:246  strings.Contains(err.Error(), "404")
IsNotFoundMessage(errText) == Contains(errText, <<"4", "0", "4">>)

\* main.go:245-253
ReportDownloadError(errText) ==
    IF IsNotFoundMessage(errText) THEN "version not found" ELSE "download error"

\* the lookup made for every argument, an explicit version included
NeedsLookupAlways(arg) == TRUE

\* main.go:166
NeedsLookup(arg) == arg = <<"latest">> \/ arg = <<"-">>

\* os.Stat(path) returning err == nil
Exists(tree) == tree.present

Terminated(p) == exitCode[p] # NotExited

\* os.Exit(code): the process ends at once; deferred calls do not run
Exit(p, code, message) ==
    /\ pc' = [pc EXCEPT ![p] = "exited"]
    /\ exitCode' = [exitCode EXCEPT ![p] = <<code>>]
    /\ report' = [report EXCEPT ![p] = message]

Log(p, e) == events' = [events EXCEPT ![p] = Append(@, e)]

Goto(p, label) ==
    /\ pc' = [pc EXCEPT ![p] = label]
    /\ UNCHANGED <<exitCode, report>>

\* ---- environment files (setupUnixEnvironment, setupEnvrcFile) ----
NoFile == [exists |-> FALSE, content |-> <<>>]
EmptyFile == [exists |-> TRUE, content |-> <<>>]

goroot(root, v) == root \o <<"/", "go">> \o v
gopath == <<"/home/u/go">>

CommentLine == <<"\n# Go environment variables added by getgo\n">>

\* main.go:340-344, written one per line at 384-390
UnixExports(root, path) ==
    <<"export ", "GOROOT=">> \o root \o <<"\n">>
    \o <<"export ", "GOPATH=">> \o path \o <<"\n">>
    \o <<"export PATH=$PATH:$GOPATH/bin:$GOROOT/bin", "\n">>

\* main.go:831-845
WindowsExports(root, path) ==
    <<"export ", "GOROOT=", "\"">> \o root \o <<"\"", "\n">>
    \o <<"export ", "GOPATH=", "\"">> \o path \o <<"\"", "\n">>
    \o <<"export PATH=\"$PATH:$GOPATH/bin:$GOROOT/bin\"", "\n">>

\* the test that never finds the assignment
HasGorootNever(content) == FALSE

\* main.go:360, 787  strings.Contains(string(content), "GOROOT=")
HasGoroot(content) == Contains(content, <<"GOROOT=">>)

\* setupUnixEnvironment: the file is created when missing, left alone when it
\* already holds "GOROOT=", and otherwise gets the comment and three exports.
setupUnixEnvironment(file, root, path) ==
    LET cur == IF file.exists THEN file ELSE EmptyFile IN
    IF HasGoroot(cur.content)
    THEN cur
    ELSE [cur EXCEPT !.content = @ \o CommentLine \o UnixExports(root, path)]

\* setupEnvironmentVariables: PowerShell on windows, the shell file elsewhere
setupEnvironmentVariables(os, file, root, path) ==
    IF os = "windows" THEN file ELSE setupUnixEnvironment(file, root, path)

EndsWithNewline(content) ==
    Len(content) > 0 /\ content[Len(content)] \in {"\n", CommentLine[1]}

\* setupEnvrcFile
setupEnvrcFile(os, file, root, path) ==
    IF file.exists /\ HasGoroot(file.content)
    THEN file
    ELSE LET sep == IF file.exists /\ Len(file.content) > 0
                       /\ ~EndsWithNewline(file.content)
                    THEN <<"\n">> ELSE <<>>
             exports == IF os = "windows" THEN WindowsExports(root, path)
                        ELSE UnixExports(root, path)
         IN [exists |-> TRUE,
             content |-> file.content \o sep \o CommentLine \o exports]

\* the two files the environment set-up edits, and no set-up made yet
EnvFileNames == {"shell", "envrc"}
NoRuns == [f \in EnvFileNames |-> <<>>]

\* ---- the destination directory of an extraction ----
Names == {"go", "bin"}
\* relative paths of one or two components
Paths == {<<n>> : n \in Names} \cup {<<n, m>> : n \in Names, m \in Names}

NoNode == [kind |-> "none", mode |-> 0, data |-> "none"]
EmptyDest == [q \in Paths |-> NoNode]

Mode644 == 6 * 64 + 4 * 8 + 4
Mode755 == 7 * 64 + 5 * 8 + 5
Mode666 == 6 * 64 + 6 * 8 + 6
Umask022 == 2 * 8 + 2
Umask077 == 7 * 8 + 7

\* no extraction under way
ExtractIdle ==
    /\ format = "tar.gz"
    /\ archive = <<>>
    /\ umask = Umask022
    /\ dest = EmptyDest
    /\ idx = 1
    /\ result = "ok"
    /\ failedAt = 0

\* the progress reader before any download
ProgressIdle ==
    /\ goarch = "amd64"
    /\ copyState = "done"
    /\ bodyLeft = 0
    /\ now = 0
    /\ totalBytes = 0
    /\ readBytes = 0
    /\ lastPercentage = 0
    /\ lastUpdateTime = 0
    /\ emitted = <<>>
    /\ emittedAt = <<>>
    /\ dividedByZero = FALSE

Init ==
    /\ ProgressIdle
    /\ ExtractIdle
    /\ goos \in {"linux", "windows"}
    /\ pc = [p \in Procs |-> "start"]
    /\ versionArg = [p \in Procs |-> NoVersion]
    /\ installPath = [p \in Procs |-> Cwd]
    /\ version = [p \in Procs |-> NoVersion]
    /\ exitCode = [p \in Procs |-> NotExited]
    /\ report = [p \in Procs |-> "none"]
    /\ dropped = [p \in Procs |-> {}]
    /\ answered404 = [p \in Procs |-> FALSE]
    /\ events = [p \in Procs |-> <<>>]
    /\ shortCircuit = [p \in Procs |-> FALSE]
    /\ startedAfter = [p \in Procs |-> {}]
    /\ promoteSnap = [p \in Procs |-> NoTree]
    /\ rootExists = [r \in InstallPaths |-> FALSE]
    /\ versionedDir = [d \in InstallPaths \X Versions |-> NoTree]
    /\ tempDir = [p \in Procs |-> NoTemp]
    /\ archiveFile = [f \in ArchivePaths |-> "absent"]
    /\ shellConfig = NoFile
    /\ envrcFile = NoFile
    /\ envRuns = NoRuns

\* most positional arguments an invocation is given
MaxArgs == 3

\* main.go:144-159: the version argument of an invocation with n positional
\* arguments: "latest" with none, args[0] otherwise
VersionArgsOf(n) == IF n = 0 THEN {<<"latest">>} ELSE VersionArgs

\* main.go:145-162: the install root of invocation p with n positional
\* arguments: "." with fewer than two, args[1] otherwise, made absolute. The
\* roots are interchangeable: the first invocation is given the working
\* directory, the second that directory or another one.
InstallPathsOf(p, n) == IF n < 2 \/ p = 1 THEN {Cwd} ELSE InstallPaths

\* main.go:134-166: -h / --help prints the usage and exits 0; more than two
\* positional arguments print it and exit 1; a path that cannot be expanded
\* exits 1; otherwise the arguments are read, and "latest" and "-" need the
\* lookup
Start(p) ==
    /\ pc[p] = "start"
    /\ \E help \in BOOLEAN, n \in 0..MaxArgs :
          IF help
          THEN Exit(p, 0, "help") /\ UNCHANGED <<versionArg, installPath, version>>
          ELSE IF n > 2
          THEN Exit(p, 1, "usage error") /\ UNCHANGED <<versionArg, installPath, version>>
          ELSE \/ Exit(p, 1, "setup error") /\ UNCHANGED <<versionArg, installPath, version>>
               \/ \E arg \in VersionArgsOf(n), path \in InstallPathsOf(p, n) :
                    /\ versionArg' = [versionArg EXCEPT ![p] = arg]
                    /\ installPath' = [installPath EXCEPT ![p] = path]
                    /\ IF NeedsLookup(arg)
                       THEN Goto(p, "lookup") /\ UNCHANGED version
                       ELSE Goto(p, "check") /\ version' = [version EXCEPT ![p] = arg]
    /\ startedAfter' = [startedAfter EXCEPT ![p] = {q \in Procs : Terminated(q)}]
    /\ UNCHANGED <<progVars, extVars, envRuns, goos, dropped, answered404, events, shortCircuit, promoteSnap,
                   installFs, envFiles>>

\* main.go:166-175 and getLatestGoVersion: one GET of the versions listing
Lookup(p) ==
    /\ pc[p] = "lookup"
    /\ Log(p, "lookup")
    /\ \/ \E v \in Versions :
            /\ version' = [version EXCEPT ![p] = v]
            /\ Goto(p, "check")
       \/ /\ Exit(p, 1, "lookup error")
          /\ UNCHANGED version
    /\ UNCHANGED <<progVars, extVars, envRuns, goos, installPath, dropped, versionArg, answered404, shortCircuit, startedAfter,
                   promoteSnap, installFs, envFiles>>

\* the already-exists branch never taken
AlreadyInstalledNever(tree) == FALSE

\* main.go:217: the versioned directory is taken as installed when os.Stat finds it
AlreadyInstalled(tree) == Exists(tree)

\* main.go:191-232: the versioned path is made absolute and the current user
\* looked up (either failure exits 1), then os.Stat(versionedGoDir) decides
CheckExisting(p) ==
    /\ pc[p] = "check"
    /\ \/ /\ Exit(p, 1, "setup error")
          /\ UNCHANGED <<events, shortCircuit>>
       \/ /\ Log(p, "stat")
          /\ IF AlreadyInstalled(versionedDir[versionedGoDir(p)])
             THEN /\ shortCircuit' = [shortCircuit EXCEPT ![p] = TRUE]
                  /\ Goto(p, "envsetup")
             ELSE /\ Goto(p, "mkroot")
                  /\ UNCHANGED shortCircuit
    /\ UNCHANGED <<progVars, extVars, envRuns, goos, installPath, dropped, versionArg, version, answered404,
                   startedAfter, promoteSnap, installFs, envFiles>>

\* main.go:235-239: os.MkdirAll(installPath, 0755)
MkRoot(p) ==
    /\ pc[p] = "mkroot"
    /\ \/ /\ rootExists' = [rootExists EXCEPT ![installPath[p]] = TRUE]
          /\ Goto(p, "head")
       \/ /\ Exit(p, 1, "mkdir error")
          /\ UNCHANGED rootExists
    /\ UNCHANGED <<progVars, extVars, envRuns, goos, installPath, dropped, versionArg, version, answered404, events, shortCircuit,
                   startedAfter, promoteSnap, versionedDir, tempDir, archiveFile,
                   envFiles>>

\* downloadFileWithProgress fails: main.go:245-253 reports and exits 1
DownloadFailed(p, errText) == Exit(p, 1, ReportDownloadError(errText))

\* main.go:531-539: the HEAD request of downloadFileWithProgress
DownloadHead(p) ==
    /\ pc[p] = "head"
    /\ Log(p, "head")
    /\ \/ \E addr \in Addrs :
            /\ DownloadFailed(p, TransportError("Head", downloadURL(version[p]), addr))
            /\ UNCHANGED answered404
       \/ \E status \in Statuses :
            /\ answered404' = [answered404 EXCEPT ![p] = (status = Status404)]
            /\ IF status # Status200
               THEN DownloadFailed(p, BadStatusError(status, downloadURL(version[p])))
               ELSE Goto(p, "get")
    /\ UNCHANGED <<progVars, extVars, envRuns, goos, installPath, dropped, versionArg, version, shortCircuit, startedAfter,
                   promoteSnap, installFs, envFiles>>

\* main.go:544-558: the GET request, then os.Create(filepath)
DownloadGet(p) ==
    /\ pc[p] = "get"
    /\ Log(p, "get")
    /\ \/ \E addr \in Addrs :
            /\ DownloadFailed(p, TransportError("Get", downloadURL(version[p]), addr))
            /\ UNCHANGED <<answered404, archiveFile>>
       \/ \E status \in Statuses \ {Status200} :
            /\ answered404' = [answered404 EXCEPT ![p] = (status = Status404)]
            /\ DownloadFailed(p, BadStatusError(status, downloadURL(version[p])))
            /\ UNCHANGED archiveFile
       \/ /\ DownloadFailed(p, CreateError(archivePath(version[p])))
          /\ UNCHANGED <<answered404, archiveFile>>
       \/ /\ archiveFile' = [archiveFile EXCEPT ![archivePath(version[p])] = "partial"]
          /\ Goto(p, "copy")
          /\ UNCHANGED answered404
    /\ UNCHANGED <<progVars, extVars, envRuns, goos, installPath, dropped, versionArg, version, shortCircuit, startedAfter,
                   promoteSnap, rootExists, versionedDir, tempDir, envFiles>>

\* main.go:561-569: io.Copy through the progress reader into the created file.
\* A file another invocation has unlinked meanwhile stays absent at its path.
DownloadCopy(p) ==
    /\ pc[p] = "copy"
    /\ \/ /\ archiveFile' = [archiveFile EXCEPT ![archivePath(version[p])] =
                               IF @ = "absent" THEN "absent" ELSE "complete"]
          /\ Goto(p, "mktemp")
       \/ \E errText \in CopyErrors(archivePath(version[p])) :
            /\ DownloadFailed(p, errText)
            /\ UNCHANGED archiveFile
    /\ UNCHANGED <<progVars, extVars, envRuns, goos, installPath, dropped, versionArg, version, answered404, events, shortCircuit,
                   startedAfter, promoteSnap, rootExists, versionedDir, tempDir,
                   envFiles>>

\* os.MkdirTemp tries random suffixes until it has made a directory that did
\* not exist; which of the free names it ends with makes no difference to
\* anyone, so the first free one stands for it
FreshTempName ==
    CHOOSE name \in TempNames \ {tempDir[q].name : q \in Procs} :
        \A other \in TempNames \ {tempDir[q].name : q \in Procs} :
            <<name, other>> \in TempNameOrder

\* main.go:260-265: os.MkdirTemp("", "getgo-extract") makes a directory under
\* a name that no entry of os.TempDir() has
MkTemp(p) ==
    /\ pc[p] = "mktemp"
    /\ \/ /\ tempDir' = [tempDir EXCEPT ![p] =
                [present |-> TRUE, name |-> FreshTempName, go |-> NoTree]]
          /\ Goto(p, "open")
       \/ /\ Exit(p, 1, "mktemp error")
          /\ UNCHANGED tempDir
    /\ UNCHANGED <<progVars, extVars, envRuns, goos, installPath, dropped, versionArg, version, answered404, events, shortCircuit,
                   startedAfter, promoteSnap, rootExists, versionedDir, archiveFile,
                   envFiles>>

\* main.go:267-275 with untargz 594-606 / unzip 647-651: the archive is opened.
\* A missing file cannot be opened; a truncated one may fail at its header.
ExtractOpen(p) ==
    /\ pc[p] = "open"
    /\ Log(p, "extract")
    /\ \/ /\ archiveFile[archivePath(version[p])] # "absent"
          /\ Goto(p, "extract")
       \/ /\ archiveFile[archivePath(version[p])] # "complete"
          /\ Exit(p, 1, "extract error")
    /\ UNCHANGED <<progVars, extVars, envRuns, goos, installPath, dropped, versionArg, version, answered404, shortCircuit,
                   startedAfter, promoteSnap, installFs, envFiles>>

\* the next entry of the archive not yet written under tempDir/go
NextEntry(tree) == CHOOSE f \in GoFiles \ tree.files :
                       \A g \in GoFiles \ tree.files : f <= g

\* main.go:267-275 with the loops of untargz / unzip: one entry is written
\* under tempDir/go, or a step fails and main exits 1. After the last entry
\* the extractor returns nil. In unzip (main.go:656-659) the os.MkdirAll of a
\* directory entry, here the leading entry go/, can fail without an error
\* being returned: the loop goes on with the next entry, whose own
\* os.MkdirAll of the parent makes the directory.
ExtractEntry(p) ==
    /\ pc[p] = "extract"
    /\ \/ /\ archiveFile[archivePath(version[p])] # "partial"
          /\ LET tree == tempDir[p].go
                 grown == [present |-> TRUE,
                           files |-> tree.files \cup {NextEntry(tree)}]
             IN /\ tempDir' = [tempDir EXCEPT ![p].go = grown]
                /\ Goto(p, IF grown.files = GoFiles THEN "stat2" ELSE "extract")
          /\ UNCHANGED dropped
       \/ /\ Exit(p, 1, "extract error")
          /\ UNCHANGED <<tempDir, dropped>>
       \/ /\ goos = "windows"
          /\ ~tempDir[p].go.present
          /\ "mkdir entry" \notin dropped[p]
          /\ dropped' = [dropped EXCEPT ![p] = @ \cup {"mkdir entry"}]
          /\ Goto(p, "extract")
          /\ UNCHANGED tempDir
    /\ UNCHANGED <<progVars, extVars, envRuns, goos, installPath, versionArg, version, answered404, events, shortCircuit,
                   startedAfter, promoteSnap, rootExists, versionedDir, archiveFile,
                   envFiles>>

\* main.go:285: os.Stat(versionedGoDir) at the start of Promoting
PromoteStat(p) ==
    /\ pc[p] = "stat2"
    /\ promoteSnap' = [promoteSnap EXCEPT ![p] = versionedDir[versionedGoDir(p)]]
    /\ Goto(p, IF Exists(versionedDir[versionedGoDir(p)]) THEN "remove" ELSE "mkparent")
    /\ UNCHANGED <<progVars, extVars, envRuns, goos, installPath, dropped, versionArg, version, answered404, events, shortCircuit,
                   startedAfter, installFs, envFiles>>

\* main.go:286-289: os.RemoveAll(versionedGoDir) unlinks the children one by
\* one and the directory last; it stops with an error at a child or at the
\* directory it cannot remove, and returns nil for a path that is gone.
RemoveAllStep(p) ==
    /\ pc[p] = "remove"
    /\ LET tree == versionedDir[versionedGoDir(p)] IN
       \/ \E f \in tree.files :
            /\ versionedDir' = [versionedDir EXCEPT ![versionedGoDir(p)].files = @ \ {f}]
            /\ Goto(p, "remove")
       \/ /\ tree.files = {}
          /\ versionedDir' = [versionedDir EXCEPT ![versionedGoDir(p)] = NoTree]
          /\ Goto(p, "mkparent")
       \/ /\ tree.present
          /\ Exit(p, 1, "remove error")
          /\ UNCHANGED versionedDir
    /\ UNCHANGED <<progVars, extVars, envRuns, goos, installPath, dropped, versionArg, version, answered404, events, shortCircuit,
                   startedAfter, promoteSnap, rootExists, tempDir, archiveFile,
                   envFiles>>

\* main.go:293-296: os.MkdirAll(filepath.Dir(versionedGoDir), 0755)
MkParent(p) ==
    /\ pc[p] = "mkparent"
    /\ \/ /\ rootExists' = [rootExists EXCEPT ![installPath[p]] = TRUE]
          /\ Goto(p, "rename")
       \/ /\ Exit(p, 1, "mkdir error")
          /\ UNCHANGED rootExists
    /\ UNCHANGED <<progVars, extVars, envRuns, goos, installPath, dropped, versionArg, version, answered404, events, shortCircuit,
                   startedAfter, promoteSnap, versionedDir, tempDir, archiveFile,
                   envFiles>>

\* rename(2) / MoveFileEx of a directory: the source must exist, and a target
\* that exists must be an empty directory (and may not exist at all on windows)
RenamePossible(os, src, dst) ==
    /\ src.present
    /\ \/ ~dst.present
       \/ (dst.files = {} /\ os # "windows")

\* main.go:299-302: os.Rename(extractedGoDir, versionedGoDir); it can also
\* fail for reasons of the host (another filesystem, permissions)
Rename(p) ==
    /\ pc[p] = "rename"
    /\ \/ /\ RenamePossible(goos, tempDir[p].go, versionedDir[versionedGoDir(p)])
          /\ versionedDir' = [versionedDir EXCEPT ![versionedGoDir(p)] = tempDir[p].go]
          /\ tempDir' = [tempDir EXCEPT ![p].go = NoTree]
          /\ Goto(p, "rmarchive")
       \/ /\ Exit(p, 1, "rename error")
          /\ UNCHANGED <<versionedDir, tempDir>>
    /\ UNCHANGED <<progVars, extVars, envRuns, goos, installPath, dropped, versionArg, version, answered404, events, shortCircuit,
                   startedAfter, promoteSnap, rootExists, archiveFile, envFiles>>

\* main.go:305: os.Remove(archivePath); when it fails the file stays and the
\* error is dropped
RemoveArchive(p) ==
    /\ pc[p] = "rmarchive"
    /\ \/ /\ archiveFile' = [archiveFile EXCEPT ![archivePath(version[p])] = "absent"]
          /\ UNCHANGED dropped
       \/ /\ archiveFile[archivePath(version[p])] # "absent"
          /\ dropped' = [dropped EXCEPT ![p] = @ \cup {"remove archive"}]
          /\ UNCHANGED archiveFile
    /\ Goto(p, "envsetup")
    /\ UNCHANGED <<progVars, extVars, envRuns, goos, installPath, versionArg, version, answered404, events, shortCircuit,
                   startedAfter, promoteSnap, rootExists, versionedDir, tempDir,
                   envFiles>>

\* main.go:220-231 and 309-318: printEnvVars, setupEnvironmentVariables when
\* -u is given, setupEnvrcIfRequested when --envrc is given; then os.Exit(0)
\* on the already-exists branch, and the end of main on the install branch.
EnvSetup(p) ==
    /\ pc[p] = "envsetup"
    /\ \E u \in BOOLEAN, e \in BOOLEAN :
        /\ shellConfig' = IF u THEN setupEnvironmentVariables(goos, shellConfig,
                                        goroot(installPath[p], version[p]), gopath)
                          ELSE shellConfig
        /\ envrcFile' = IF e THEN setupEnvrcFile(goos, envrcFile,
                                        goroot(installPath[p], version[p]), gopath)
                        ELSE envrcFile
    /\ IF shortCircuit[p]
       THEN Exit(p, 0, "already exists")
       ELSE Goto(p, "return")
    /\ UNCHANGED <<progVars, extVars, envRuns, goos, installPath, dropped, versionArg, version, answered404, events, shortCircuit,
                   startedAfter, promoteSnap, installFs>>

\* main.go:319 with the defer of 265: main returns, os.RemoveAll(tempDir) runs
Return(p) ==
    /\ pc[p] = "return"
    /\ tempDir' = [tempDir EXCEPT ![p] = NoTemp]
    /\ Exit(p, 0, "installed")
    /\ UNCHANGED <<progVars, extVars, envRuns, goos, installPath, dropped, versionArg, version, answered404, events, shortCircuit,
                   startedAfter, promoteSnap, rootExists, versionedDir, archiveFile,
                   envFiles>>

Next ==
    \E p \in Procs :
        \/ Start(p)
        \/ Lookup(p)
        \/ CheckExisting(p)
        \/ MkRoot(p)
        \/ DownloadHead(p)
        \/ DownloadGet(p)
        \/ DownloadCopy(p)
        \/ MkTemp(p)
        \/ ExtractOpen(p)
        \/ ExtractEntry(p)
        \/ PromoteStat(p)
        \/ RemoveAllStep(p)
        \/ MkParent(p)
        \/ Rename(p)
        \/ RemoveArchive(p)
        \/ EnvSetup(p)
        \/ Return(p)

Spec == Init /\ [][Next]_vars

----------------------------------------------------------------------------
(* Claims about the install pipeline (checked under Spec).                 *)

Count(seq, e) == Cardinality({i \in 1..Len(seq) : seq[i] = e})

\* C1: in every reachable state, failure exits included, the versioned
\* directory is absent or a complete tree of one finished extraction and
\* rename (which is also all it can have been before an invocation); it is
\* never partially written or partially deleted under its final name.
C1_NeverPartialUnderFinalName ==
    \A d \in DOMAIN versionedDir : versionedDir[d] \in {NoTree, CompleteTree}

\* C2 as stated: an invocation that finds the versioned directory at
\* CheckExisting ends with status 0 without download or extraction and
\* leaves the disk as it was, environment files included.
C2_ShortCircuitLeavesDiskUnchanged ==
    [][\A p \in Procs :
          (shortCircuit[p] /\ pc'[p] # pc[p]) =>
              /\ UNCHANGED <<installFs, envFiles>>
              /\ exitCode'[p] = <<0>>
              /\ Count(events'[p], "get") = 0
              /\ Count(events'[p], "extract") = 0]_vars

\* C2 amended: an invocation that finds the versioned directory at
\* CheckExisting goes to exit status 0 without any request for the archive
\* and without extraction, and none of its steps changes the install root,
\* a versioned directory, a temp directory or an archive file (it may still
\* write the environment files when -u or --envrc asks for it); and when an
\* invocation has installed a version, an invocation for the same version
\* started after it ended takes this branch, so that the two together made
\* one download and one extraction.
C2_ShortCircuitSteps ==
    \A p \in Procs :
        (shortCircuit'[p] /\ pc'[p] # pc[p]) =>
            /\ UNCHANGED installFs
            /\ pc'[p] \in {"envsetup", "exited"}
            /\ pc'[p] = "exited" => exitCode'[p] = <<0>>
            /\ events'[p] \in {<<"stat">>, <<"lookup", "stat">>}

C2_SecondInvocation ==
    \A p \in Procs : \A q \in startedAfter[p] :
        (/\ report[q] = "installed"
         /\ version[p] = version[q]
         /\ installPath[p] = installPath[q]
         /\ Count(events[p], "stat") = 1) =>
            /\ shortCircuit[p]
            /\ Count(events[p], "get") + Count(events[q], "get") = 1
            /\ Count(events[p], "extract") + Count(events[q], "extract") = 1

C2_Idempotence == [][C2_ShortCircuitSteps]_vars /\ []C2_SecondInvocation

\* C2 witness: an invocation installed a version and exited; a later one for
\* the same version took the already-exists branch and exited.
C2_Witness ==
    \E p \in Procs : \E q \in startedAfter[p] :
        /\ report[q] = "installed"
        /\ version[p] = version[q]
        /\ installPath[p] = installPath[q]
        /\ shortCircuit[p]
        /\ report[p] = "already exists"

\* C3: every invocation that has ended after creating its temporary
\* extraction directory has removed it.
C3_TempDirGoneAtExit ==
    \A p \in Procs : Terminated(p) => ~tempDir[p].present

\* C4: at the step where os.Rename is tried, a failure leaves the versioned
\* path as it is and as os.Stat found it at the start of Promoting when an
\* entry was there; a success leaves exactly the new install.
C4_RenameIsAtomicityBoundary ==
    [][\A p \in Procs :
          (pc[p] = "rename" /\ pc'[p] # "rename") =>
              IF pc'[p] = "exited"
              THEN /\ versionedDir'[versionedGoDir(p)] = versionedDir[versionedGoDir(p)]
                   /\ promoteSnap[p].present =>
                          versionedDir'[versionedGoDir(p)] = promoteSnap[p]
              ELSE versionedDir'[versionedGoDir(p)] = CompleteTree]_vars

\* C5: a failed download is reported as version-not-found exactly when the
\* archive URL answered HEAD or GET with 404, as a generic download failure
\* otherwise, and the invocation has not even made its extraction
\* directory, let alone a versioned directory.
C5_NotFoundExactlyOn404 ==
    \A p \in Procs :
        report[p] \in {"version not found", "download error"} =>
            /\ report[p] = "version not found" <=> answered404[p]
            /\ ~tempDir[p].present

\* C6 as stated: whatever the version argument, the first thing an
\* invocation does among stat and network requests is the os.Stat of the
\* versioned directory.
C6_StatBeforeAnyRequest ==
    \A p \in Procs : events[p] # <<>> => events[p][1] = "stat"

\* C6 amended: with an explicit version argument the os.Stat of the versioned
\* directory comes before every network request; with "latest" or "-" the
\* one request before it is the lookup of the latest version; in both cases
\* no request for the archive (HEAD or GET) is made before the os.Stat.
C6_StatBeforeArchiveRequests ==
    \A p \in Procs :
        LET e == events[p] IN
        /\ \A i \in 1..Len(e) :
              /\ e[i] \in {"head", "get"} => \E j \in 1..(i - 1) : e[j] = "stat"
              /\ e[i] = "lookup" => i = 1 /\ versionArg[p] \in {<<"latest">>, <<"-">>}
        /\ (versionArg[p] \in Versions /\ e # <<>>) => e[1] = "stat"

\* C6 witness: an invocation with an explicit version and one with "latest"
\* or "-" have both gone through the os.Stat and requested the archive.
C6_Witness ==
    \E p \in Procs, q \in Procs :
        /\ versionArg[p] \in Versions
        /\ versionArg[q] \in {<<"latest">>, <<"-">>}
        /\ Count(events[p], "get") = 1
        /\ Count(events[q], "get") = 1

\* C12: an invocation that was not asked for the usage text (-h, --help)
\* ends with status 0 exactly when it completed the install or took the
\* already-exists branch, and with status 1 in every other case, more than
\* two positional arguments included; and no call of a pipeline stage fails
\* without the invocation ending there with status 1.
C12_ExitStatus ==
    \A p \in Procs :
        /\ (Terminated(p) /\ report[p] # "help") =>
              /\ exitCode[p] = <<0>> <=> (report[p] = "installed" \/ shortCircuit[p])
              /\ exitCode[p] = <<1>> <=> ~(report[p] = "installed" \/ shortCircuit[p])
              /\ report[p] = "usage error" => exitCode[p] = <<1>>
        /\ dropped[p] # {} => exitCode[p] = <<1>>

\* two invocations whose versions are known and differ
DifferentVersions(p, q) ==
    /\ p # q
    /\ version[p] # NoVersion
    /\ version[q] # NoVersion
    /\ version[p] # version[q]

C16_ArchiveGoneAtExit ==
    \A p \in Procs :
        (Terminated(p) /\ Count(events[p], "get") = 1) =>
            archiveFile[archivePath(version[p])] = "absent"

----------------------------------------------------------------------------
(* progressReader.Read under io.Copy, and the final render of              *)
(* downloadFileWithProgress.                                               *)

\* bounds of the download modelled
MaxTotal == 4
MaxBody == 5
MaxChunk == 3
MaxTime == 400
TickMs == 50

\* main.go:50  100*time.Millisecond
ThrottleMs == 100

Min(a, b) == IF a <= b THEN a ELSE b

\* int(x) of Go for a quotient: truncation toward zero
TruncDiv(a, b) ==
    IF (a >= 0) = (b > 0) THEN (IF a >= 0 THEN a ELSE 0 - a) \div (IF b > 0 THEN b ELSE 0 - b)
    ELSE 0 - ((IF a >= 0 THEN a ELSE 0 - a) \div (IF b > 0 THEN b ELSE 0 - b))

\* math.MinInt64 and math.MaxInt64 are beyond the integers of TLC; these
\* stand for them: what matters below is their sign and that they lie
\* outside 0..100.
IntMin == 0 - 2^30
IntMax == 2^30

\* int(f) for a float64 f that no int holds is implementation-dependent in
\* Go: CVTTSD2SQ of amd64 yields MinInt64 for NaN and for +Inf, FCVTZS of
\* arm64 yields 0 for NaN and MaxInt64 for +Inf.
IntOfNaN(arch) == IF arch = "amd64" THEN IntMin ELSE 0
IntOfPosInf(arch) == IF arch = "amd64" THEN IntMin ELSE IntMax

\* main.go:51  int(float64(pr.readBytes) / float64(pr.totalBytes) * 100)
\* (float64 division by zero is NaN for 0/0 and +Inf for r/0, r > 0; for the
\* sizes modelled the float64 result equals the exact quotient)
Percentage(arch, r, t) ==
    IF t = 0
    THEN (IF r = 0 THEN IntOfNaN(arch) ELSE IntOfPosInf(arch))
    ELSE TruncDiv(100 * r, t)

\* the throttle that lets every read report
ThrottleElapsedAlways(clock, last) == TRUE

\* main.go:50  time.Since(pr.lastUpdateTime) > 100*time.Millisecond
ThrottleElapsed(clock, last) == clock - last > ThrottleMs

\* main.go:54  percentage != pr.lastPercentage && percentage <= 100
ShouldUpdate(percentage, last) == percentage # last /\ percentage <= 100

\* renderProgressBar: the percentage the bar shows (main.go:72-76, 97)
renderProgressBar(percentage) ==
    IF percentage < 0 THEN 0
    ELSE IF percentage > 100 THEN 100
    ELSE percentage

\* the download that ends without its last render
DownloadFinishSilent(printed) == printed

\* main.go:567  fmt.Print(renderProgressBar(100))
DownloadFinish(printed) == Append(printed, renderProgressBar(100))

\* no invocation has started and nothing is installed
InvocationsIdle ==
    /\ pc = [p \in Procs |-> "start"]
    /\ versionArg = [p \in Procs |-> NoVersion]
    /\ installPath = [p \in Procs |-> Cwd]
    /\ version = [p \in Procs |-> NoVersion]
    /\ exitCode = [p \in Procs |-> NotExited]
    /\ report = [p \in Procs |-> "none"]
    /\ dropped = [p \in Procs |-> {}]
    /\ answered404 = [p \in Procs |-> FALSE]
    /\ events = [p \in Procs |-> <<>>]
    /\ shortCircuit = [p \in Procs |-> FALSE]
    /\ startedAfter = [p \in Procs |-> {}]
    /\ promoteSnap = [p \in Procs |-> NoTree]
    /\ rootExists = [r \in InstallPaths |-> FALSE]
    /\ versionedDir = [d \in InstallPaths \X Versions |-> NoTree]
    /\ tempDir = [p \in Procs |-> NoTemp]
    /\ archiveFile = [f \in ArchivePaths |-> "absent"]

\* the pipeline before any invocation has started
PipelineIdle ==
    /\ goos = "linux"
    /\ InvocationsIdle
    /\ shellConfig = NoFile
    /\ envrcFile = NoFile
    /\ envRuns = NoRuns

\* main.go:541, 561 and newProgressReader: totalBytes is the ContentLength of
\* the HEAD response (-1 when the server names none), the body is what the
\* GET response delivers.
ProgressInit ==
    /\ PipelineIdle
    /\ ExtractIdle
    /\ goarch \in {"amd64", "arm64"}
    /\ copyState = "copy"
    /\ bodyLeft \in 0..MaxBody
    /\ now = 0
    /\ totalBytes \in (0 - 1)..MaxTotal
    /\ readBytes = 0
    /\ lastPercentage = 0
    /\ lastUpdateTime = now
    /\ emitted = <<>>
    /\ emittedAt = <<>>
    /\ dividedByZero = FALSE

\* time passes between two reads
Tick ==
    /\ copyState = "copy"
    /\ now + TickMs <= MaxTime
    /\ now' = now + TickMs
    /\ UNCHANGED <<pipeVars, extVars, goarch, copyState, bodyLeft, totalBytes, readBytes,
                   lastPercentage, lastUpdateTime, emitted, emittedAt, dividedByZero>>

\* progressReader.Read, called by io.Copy: the body returns n bytes and nil,
\* the last bytes (or none) and io.EOF, or some bytes and an error; io.Copy
\* goes on after nil and stops otherwise. The clock is read at main.go:50
\* (time.Since) and, when a line is reported, again at main.go:56 (time.Now),
\* where it is the same or later.
Read ==
    /\ copyState = "copy"
    /\ \E n \in 0..Min(bodyLeft, MaxChunk), err \in {"nil", "EOF", "error"},
          later \in {now, now + TickMs} :
        /\ err = "nil" => n > 0
        /\ err = "EOF" => n = bodyLeft
        /\ later <= MaxTime
        /\ LET bytes == readBytes + n
               due == ThrottleElapsed(now, lastUpdateTime)
               percentage == Percentage(goarch, bytes, totalBytes)
               update == due /\ ShouldUpdate(percentage, lastPercentage)
           IN /\ later # now => update
              /\ now' = later
              /\ readBytes' = bytes
              /\ bodyLeft' = bodyLeft - n
              /\ dividedByZero' = (dividedByZero \/ (due /\ totalBytes = 0))
              /\ lastPercentage' = IF update THEN percentage ELSE lastPercentage
              /\ lastUpdateTime' = IF update THEN later ELSE lastUpdateTime
              /\ emitted' = IF update
                            THEN Append(emitted, renderProgressBar(percentage))
                            ELSE emitted
              /\ emittedAt' = IF update THEN Append(emittedAt, later) ELSE emittedAt
        /\ copyState' = IF err = "nil" THEN "copy" ELSE "final"
    /\ UNCHANGED <<pipeVars, extVars, goarch, totalBytes>>

\* main.go:566-569: io.Copy has returned; the bar is drawn at 100
FinalRender ==
    /\ copyState = "final"
    /\ emitted' = DownloadFinish(emitted)
    /\ copyState' = "done"
    /\ UNCHANGED <<pipeVars, extVars, goarch, bodyLeft, now, totalBytes, readBytes,
                   lastPercentage, lastUpdateTime, emittedAt, dividedByZero>>

ProgressNext == Tick \/ Read \/ FinalRender

SpecProgress == ProgressInit /\ [][ProgressNext]_vars

NonDecreasing(seq) == \A i \in 1..(Len(seq) - 1) : seq[i] <= seq[i + 1]

\* C7: when totalBytes > 0 and the reads deliver exactly totalBytes bytes,
\* the percentages printed by the progress reader and then by the final
\* render never decrease, whatever the timing of the reads, and the last
\* one printed is 100.
C7_ProgressMonotoneTo100 ==
    (totalBytes > 0 /\ readBytes + bodyLeft = totalBytes) =>
        /\ NonDecreasing(emitted)
        /\ (copyState = "done" /\ bodyLeft = 0) =>
               (emitted # <<>> /\ emitted[Len(emitted)] = 100)

\* C7 witness: a download of totalBytes > 0 bytes has ended after all its
\* bytes were read, and the reader printed at least two percentages before
\* the final render.
C7_Witness ==
    /\ totalBytes > 0
    /\ readBytes = totalBytes
    /\ bodyLeft = 0
    /\ copyState = "done"
    /\ Len(emitted) >= 3
    /\ emitted[1] < emitted[2]

\* C8: whatever totalBytes is (positive, zero, unknown) and whatever is
\* read, the last reported percentage and every percentage printed lie in
\* 0..100, and no percentage is computed by dividing by a totalBytes of 0.
C8_PercentageWithinBounds ==
    /\ lastPercentage \in 0..100
    /\ \A i \in 1..Len(emitted) : emitted[i] \in 0..100
    /\ ~dividedByZero

\* a step of progressReader.Read
ReadStep == copyState = "copy" /\ <<readBytes, copyState>>' # <<readBytes, copyState>>

\* a step of progressReader.Read that reports a line
ReportStep == ReadStep /\ Len(emittedAt') > Len(emittedAt)

C15_ReportsApart ==
    \A i \in 1..(Len(emittedAt) - 1) : emittedAt[i + 1] - emittedAt[i] > ThrottleMs

C15_ReadSteps ==
    /\ ReportStep => lastPercentage' # lastPercentage
    /\ (ReadStep /\ ~ReportStep) => UNCHANGED <<lastPercentage, lastUpdateTime>>

\* C15: the report timestamps of any two consecutive lines of the progress
\* reader are more than 100ms apart; a read reports a line only when the
\* percentage it computes differs from the last reported one; and a read
\* that reports nothing leaves lastPercentage and lastUpdateTime as they are.
C15_Throttle == []C15_ReportsApart /\ [][C15_ReadSteps]_vars

\* C15 witness: the reader has reported two lines in the course of a
\* download, which has ended.
C15_Witness ==
    /\ Len(emittedAt) >= 2
    /\ copyState = "done"

----------------------------------------------------------------------------
(* untargz and unzip.                                                      *)

\* most entries an archive of the model holds
MaxEntries == 2

Mode700 == 7 * 64
FileModes == {Mode644, Mode755}
DirModes == {Mode755, Mode700}
Umasks == {Umask022, Umask077}

\* tar.Header{Name, Typeflag, Mode} / zip.FileHeader{Name, Mode()}
Entries == [name : Paths, kind : {"file"}, mode : FileModes]
               \cup [name : Paths, kind : {"dir"}, mode : DirModes]
Archives == UNION {[1..n -> Entries] : n \in 0..MaxEntries}

\* the system calls that the host can make fail at an entry
TarFaults == {"none", "next", "mkdir", "create", "copy", "chmod"}
ZipFaults == {"none", "mkdir", "create", "open", "copy"}

\* m &^ k on permission bits
RECURSIVE AndNot(_, _)
AndNot(m, k) ==
    IF m = 0 THEN 0
    ELSE (m % 2) * (1 - (k % 2)) + 2 * AndNot(m \div 2, k \div 2)

\* os.FileMode.Perm(): the nine permission bits
Perm(mode) == mode % 512

\* filepath.Dir of a relative path (<<>> is dst itself)
Dir(path) == SubSeq(path, 1, Len(path) - 1)

Prefixes(path) == {SubSeq(path, 1, i) : i \in 1..Len(path)}

\* os.MkdirAll fails when a component of the path is a regular file
MkdirAllOk(tree, path) == \A q \in Prefixes(path) : tree[q].kind # "file"

\* os.MkdirAll(path, perm): the missing components are made with perm &^ umask
MkdirAll(tree, path, perm, mask) ==
    [q \in Paths |->
        IF q \in Prefixes(path) /\ tree[q].kind = "none"
        THEN [kind |-> "dir", mode |-> AndNot(Perm(perm), mask), data |-> "none"]
        ELSE tree[q]]

\* open(2) with O_CREATE|O_TRUNC fails on a directory
CreateOk(tree, path) == tree[path].kind # "dir"

\* os.OpenFile(path, O_CREATE|O_TRUNC, perm): a new file gets perm &^ umask,
\* an existing one keeps its mode and loses its content
CreateFile(tree, path, perm, mask) ==
    [tree EXCEPT ![path] =
        IF @.kind = "file"
        THEN [@ EXCEPT !.data = "partial"]
        ELSE [kind |-> "file", mode |-> AndNot(Perm(perm), mask), data |-> "partial"]]

\* io.Copy(outFile, entry) to its end
CopyAll(tree, path) == [tree EXCEPT ![path].data = "full"]

\* os.Chmod(path, mode)
Chmod(tree, path, mode) == [tree EXCEPT ![path].mode = Perm(mode)]

\* outcome of one loop iteration: the tree, whether the function returns an
\* error, and whether a step of the iteration failed
Outcome(tree, err, failed) == [tree |-> tree, err |-> err, failed |-> failed]

\* untargz, main.go:609-641: one iteration of the loop on entry e
untargzEntry(tree, e, mask, fault) ==
    IF fault = "next" THEN Outcome(tree, TRUE, TRUE)
    ELSE IF e.kind = "dir"
    THEN IF fault = "mkdir" \/ ~MkdirAllOk(tree, e.name)
         THEN Outcome(tree, TRUE, TRUE)
         ELSE Outcome(MkdirAll(tree, e.name, Mode755, mask), FALSE, FALSE)
    ELSE IF fault = "mkdir" \/ ~MkdirAllOk(tree, Dir(e.name))
    THEN Outcome(tree, TRUE, TRUE)
    ELSE LET made == MkdirAll(tree, Dir(e.name), Mode755, mask) IN
         IF fault = "create" \/ ~CreateOk(made, e.name)
         THEN Outcome(made, TRUE, TRUE)
         ELSE LET created == CreateFile(made, e.name, Mode666, mask) IN
              IF fault = "copy" THEN Outcome(created, TRUE, TRUE)
              ELSE LET copied == CopyAll(created, e.name) IN
                   IF fault = "chmod" THEN Outcome(copied, TRUE, TRUE)
                   ELSE Outcome(Chmod(copied, e.name, e.mode), FALSE, FALSE)

\* unzip, main.go:653-683: one iteration of the loop on entry e
unzipEntry(tree, e, mask, fault) ==
    IF e.kind = "dir"
    THEN IF fault = "mkdir" \/ ~MkdirAllOk(tree, e.name)
         THEN Outcome(tree, FALSE, TRUE)
         ELSE Outcome(MkdirAll(tree, e.name, e.mode, mask), FALSE, FALSE)
    ELSE IF fault = "mkdir" \/ ~MkdirAllOk(tree, Dir(e.name))
    THEN Outcome(tree, TRUE, TRUE)
    ELSE LET made == MkdirAll(tree, Dir(e.name), Mode755, mask) IN
         IF fault = "create" \/ ~CreateOk(made, e.name)
         THEN Outcome(made, TRUE, TRUE)
         ELSE LET created == CreateFile(made, e.name, e.mode, mask) IN
              IF fault \in {"open", "copy"} THEN Outcome(created, TRUE, TRUE)
              ELSE Outcome(CopyAll(created, e.name), FALSE, FALSE)

ExtractInit ==
    /\ PipelineIdle
    /\ ProgressIdle
    /\ format \in {"tar.gz", "zip"}
    /\ archive \in Archives
    /\ umask \in Umasks
    /\ dest = EmptyDest
    /\ idx = 1
    /\ result = "opening"
    /\ failedAt = 0

\* main.go:594-606 / 647-651: the archive file is opened and its envelope read
OpenArchive ==
    /\ result = "opening"
    /\ result' \in {"running", "error"}
    /\ UNCHANGED <<pipeVars, progVars, format, archive, umask, dest, idx, failedAt>>

Iterate(outcome) ==
    /\ dest' = outcome.tree
    /\ failedAt' = IF failedAt = 0 /\ outcome.failed THEN idx ELSE failedAt
    /\ result' = IF outcome.err THEN "error" ELSE result
    /\ idx' = IF outcome.err THEN idx ELSE idx + 1

\* untargz: tr.Next() yields the next header and the entry is written
UntargzEntry ==
    /\ result = "running"
    /\ format = "tar.gz"
    /\ idx <= Len(archive)
    /\ \E fault \in TarFaults :
          Iterate(untargzEntry(dest, archive[idx], umask, fault))
    /\ UNCHANGED <<pipeVars, progVars, format, archive, umask>>

\* unzip: the next element of r.File is written
UnzipEntry ==
    /\ result = "running"
    /\ format = "zip"
    /\ idx <= Len(archive)
    /\ \E fault \in ZipFaults :
          Iterate(unzipEntry(dest, archive[idx], umask, fault))
    /\ UNCHANGED <<pipeVars, progVars, format, archive, umask>>

\* main.go:610-615, 643 / 684: the entries are exhausted and nil is returned;
\* tr.Next() can also return an error where the end of the tar stream should be
ExtractEnd ==
    /\ result = "running"
    /\ idx > Len(archive)
    /\ \/ result' = "ok" /\ UNCHANGED failedAt
       \/ /\ format = "tar.gz"
          /\ result' = "error"
          /\ failedAt' = IF failedAt = 0 THEN idx ELSE failedAt
    /\ UNCHANGED <<pipeVars, progVars, format, archive, umask, dest, idx>>

ExtractNext == OpenArchive \/ UntargzEntry \/ UnzipEntry \/ ExtractEnd

SpecExtract == ExtractInit /\ [][ExtractNext]_vars

\* C9: in both strategies, once a step of an entry has failed, extract has
\* returned an error and the loop stands at that entry: no later entry is
\* processed.
C9_EntryFailureAborts ==
    failedAt # 0 => (result = "error" /\ idx = failedAt)

\* the last file entry of the archive stored under its name
LastFileEntry(i) ==
    /\ archive[i].kind = "file"
    /\ \A j \in (i + 1)..Len(archive) : archive[j].name # archive[i].name

\* C10: after an extraction that returned nil, by either strategy, the
\* output file of every regular-file entry has exactly the permission bits
\* stored for the entry, whatever the umask and whether or not the file
\* existed before the entry was written.
C10_FileModesPreserved ==
    result = "ok" =>
        \A i \in 1..Len(archive) :
            LastFileEntry(i) =>
                /\ dest[archive[i].name].kind = "file"
                /\ dest[archive[i].name].mode = archive[i].mode

\* the loop of either strategy over the entries from index i on, on a host
\* where no system call is made to fail: it stops at the first entry that
\* returns an error, and records whether a step of any entry failed
RECURSIVE extractFrom(_, _, _, _, _)
extractFrom(strategy, tree, entries, mask, i) ==
    IF i > Len(entries) THEN Outcome(tree, FALSE, FALSE)
    ELSE LET o == IF strategy = "zip"
                  THEN unzipEntry(tree, entries[i], mask, "none")
                  ELSE untargzEntry(tree, entries[i], mask, "none")
         IN IF o.err THEN o
            ELSE LET rest == extractFrom(strategy, o.tree, entries, mask, i + 1)
                 IN Outcome(rest.tree, rest.err, o.failed \/ rest.failed)

\* untargz(src, dst) into an empty dst
untargz(entries, mask) == extractFrom("tar.gz", EmptyDest, entries, mask, 1)

\* unzip(src, dst) into an empty dst
unzip(entries, mask) == extractFrom("zip", EmptyDest, entries, mask, 1)

\* C11: when an archive has been extracted into an empty destination with no
\* failed step, the tree is the one the other strategy makes of the same
\* entries under the same umask (when it too extracts them with no failed
\* step): same paths, same kind per path, same contents, same permission bits.
C11_SameTreeBothStrategies ==
    (result = "ok" /\ failedAt = 0) =>
        LET other == IF format = "zip" THEN untargz(archive, umask)
                                       ELSE unzip(archive, umask)
        IN (~other.err /\ ~other.failed) => dest = other.tree

----------------------------------------------------------------------------
(* setupEnvironmentVariables and setupEnvrcFile on the files of a user.    *)

\* longest file the user has before the first set-up, in tokens
MaxFileLen == 1

\* most set-ups made of one file
MaxRuns == 2

\* what a file of the user holds: a setting of their own, a line end, an
\* assignment of GOROOT
FileTokens == {"alias ll=ls", "\n", "GOROOT="}
UserContents == UNION {[1..n -> FileTokens] : n \in 0..MaxFileLen}
UserFiles == {NoFile} \cup {[exists |-> TRUE, content |-> c] : c \in UserContents}

\* how a set-up that turns the file before into the file after can end: at
\* its end, or at a call that returns an error (main.go:353-389, 759-859),
\* which leaves the file as it was, or created, or with the lines that the
\* calls of WriteString before the failing one have written
SetupOutcomes(before, after) ==
    {[file |-> after, end |-> "ok"], [file |-> before, end |-> "error"]}
    \cup {[file |-> [exists |-> TRUE, content |-> SubSeq(after.content, 1, k)],
           end |-> "error"] :
             k \in {j \in Len(before.content)..(Len(after.content) - 1) :
                       j = Len(before.content)
                       \/ EndsWithNewline(SubSeq(after.content, 1, j))}}

EnvInit ==
    /\ goos \in {"linux", "windows"}
    /\ InvocationsIdle
    /\ ProgressIdle
    /\ ExtractIdle
    /\ shellConfig \in UserFiles
    /\ envrcFile \in UserFiles
    /\ envRuns = NoRuns

\* setupEnvironmentVariables(versionedGoDir, gopath), called with -u
SetupShell ==
    /\ Len(envRuns["shell"]) < MaxRuns
    /\ \E v \in Versions :
        \E o \in SetupOutcomes(shellConfig,
                    setupEnvironmentVariables(goos, shellConfig, goroot(Cwd, v), gopath)) :
            /\ shellConfig' = o.file
            /\ envRuns' = [envRuns EXCEPT !["shell"] = Append(@, o.end)]
    /\ UNCHANGED <<progVars, extVars, goos, procVars, dropped, versionArg, installPath, version,
                   answered404, events, shortCircuit, startedAfter, promoteSnap,
                   installFs, envrcFile>>

\* setupEnvrcIfRequested(envrcFlag, versionedGoDir, gopath), called with --envrc
SetupEnvrc ==
    /\ Len(envRuns["envrc"]) < MaxRuns
    /\ \E v \in Versions :
        \E o \in SetupOutcomes(envrcFile,
                    setupEnvrcFile(goos, envrcFile, goroot(Cwd, v), gopath)) :
            /\ envrcFile' = o.file
            /\ envRuns' = [envRuns EXCEPT !["envrc"] = Append(@, o.end)]
    /\ UNCHANGED <<progVars, extVars, goos, procVars, dropped, versionArg, installPath, version,
                   answered404, events, shortCircuit, startedAfter, promoteSnap,
                   installFs, shellConfig>>

EnvNext == SetupShell \/ SetupEnvrc

SpecEnv == EnvInit /\ [][EnvNext]_vars

\* a set-up of file f so far has run to its end
RanToEnd(f) == \E i \in 1..Len(envRuns[f]) : envRuns[f][i] = "ok"

\* C13: a set-up of the shell configuration file or of the .envrc file that
\* finds 'GOROOT=' in the file leaves the file as it is, byte for byte; and
\* once a set-up of a file has run to its end, every further set-up of that
\* file leaves it as it is: twice is the same as once.
C13_AppendIdempotent ==
    [][/\ Len(envRuns'["shell"]) > Len(envRuns["shell"]) =>
             ((Contains(shellConfig.content, <<"GOROOT=">>) \/ RanToEnd("shell"))
                  => shellConfig' = shellConfig)
       /\ Len(envRuns'["envrc"]) > Len(envRuns["envrc"]) =>
             ((Contains(envrcFile.content, <<"GOROOT=">>) \/ RanToEnd("envrc"))
                  => envrcFile' = envrcFile)]_vars

\* C13 witness: both files lacked 'GOROOT=', got the comment and the exports
\* from a first set-up, and have been through a second set-up that ran to
\* its end.
C13_Witness ==
    /\ envRuns["shell"] = <<"ok", "ok">>
    /\ envRuns["envrc"] = <<"ok", "ok">>
    /\ Contains(shellConfig.content, CommentLine)
    /\ Contains(envrcFile.content, CommentLine)

====
